---- MODULE Spec2Model ----
(***************************************************************************)
(* rust-gpredict, src/predict.rs: the Julian date arithmetic               *)
(* (julian_timestamp, julian_to_unix) and the prediction session           *)
(* (Predict::new, Predict::update) over the gpredict FFI.                  *)
(*                                                                         *)
(* Numbers.  TLC's integers are 32 bits wide, so no time is held as one    *)
(* number of seconds or nanoseconds:                                       *)
(*   - an f64 Julian date is a record [d, g] that stands for               *)
(*     d + 0.5 + g / 2^31 days.  Between 2^21 and 2^22 days (years -970 to *)
(*     6700) the f64 values are exactly the multiples of 2^-31 day         *)
(*     (40.2 microseconds), so 0 <= g < 2^31 names every f64 in a day and  *)
(*     every f64 sum is the exact sum rounded to that grid;                *)
(*   - an instant is [day, sod, nsec]: days since 1970-01-01, second of    *)
(*     the day, nanosecond of the second.                                  *)
(***************************************************************************)
EXTENDS Integers, Sequences, FiniteSets

VARIABLES
    tIn,        \* TimeSpec: the civil time handed to julian_timestamp
    jul,        \* TimeSpec: julian_timestamp(tIn)
    back,       \* TimeSpec: julian_to_unix(jul)
    pcT,        \* TimeSpec: "start", "julian", "unix"
    utcoff,     \* the process's time zone, seconds east of UTC (time::at)
    predict,    \* the Predict value: [live, sat, p_sat, elems]
    call,       \* the last call on the session and how it ended
    hist        \* history of the updates, for the properties

vars == <<tIn, jul, back, pcT, utcoff, predict, call, hist>>

(***************************************************************************)
(* Bounds of the model.                                                    *)
(***************************************************************************)
\* the civil times tried end in the years (2100 - YearsBack) .. 2100
YearsBack == 1
\* the session is queried on QueryDays consecutive days
QueryDays == 3

(***************************************************************************)
(* f64 grid.                                                               *)
(***************************************************************************)
\* 2^31 - 1: the last grid point of a day
MaxGrid == 2147483647

\* n / dn rounded to nearest (no ties occur where it is used)
RoundDiv(n, dn) == (2 * n + dn) \div (2 * dn)

\* <<q, r>> with n * 2^k = q * 1318359375 + r, by k doublings that never
\* leave 32 bits
RECURSIVE Shift15(_, _, _)
Shift15(q, r, k) ==
    IF k = 0 THEN <<q, r>>
    ELSE IF r >= 1318359375 - r
         THEN Shift15(2 * q + 1, r - (1318359375 - r), k - 1)
         ELSE Shift15(2 * q, r + r, k - 1)

\* nanoseconds as a fraction of a day, in grid units, rounded down:
\* ns / 8.64e13 * 2^31 = ns * 2^15 / 1318359375
NsGridFloor(ns) == Shift15(0, ns, 15)[1]

\* the same rounded to nearest
NsGrid(ns) ==
    LET qr == Shift15(0, ns, 15)
    IN  IF qr[2] >= 1318359375 - qr[2] THEN qr[1] + 1 ELSE qr[1]

\* seconds as a fraction of a day, in grid units, rounded down:
\* sod / 86400 * 2^31 = sod * 2^24 / 675 and 2^24 = 675 * 24855 + 91
SodGridFloor(sod) == sod * 24855 + (sod * 91) \div 675

\* the same rounded to nearest
SodGrid(sod) == sod * 24855 + RoundDiv(sod * 91, 675)

\* d + 0.5 + (g1 + g2) / 2^31 as a Julian record, g1 + g2 <= 2^31
GridSum(d, g1, g2) ==
    IF g1 > MaxGrid - g2
    THEN [d |-> d + 1, g |-> g1 - (MaxGrid - g2) - 1]
    ELSE [d |-> d, g |-> g1 + g2]

\* the f64 0.0
ZeroJulian == [d |-> -1, g |-> 1073741824]

JulLeq(a, b) == a.d < b.d \/ (a.d = b.d /\ a.g <= b.g)
JulLess(a, b) == a.d < b.d \/ (a.d = b.d /\ a.g < b.g)

(***************************************************************************)
(* julian_timestamp and its helpers.                                       *)
(***************************************************************************)
\* the second of the day; the f64 quotient by 86400 differs from it by
\* 2^-53, far below the grid, and is put on the grid by the sum that uses it
fraction_of_day(h, m, s) == h * 3600 + m * 60 + s

\* the integer part of the Julian date of day 0.0 of January of yr (the date
\* itself ends in .5)
julian_date_of_year(yr) ==
    LET year == yr - 1
        a == year \div 100
        i == a \div 4
        b == 2 - a + i
    IN  (1461 * year) \div 4 + (306001 * 14) \div 10000 + 1720994 + b

days == <<31, 28, 31, 30, 31, 30, 31, 31, 30, 31, 30, 31>>

RECURSIVE SumDays(_)
SumDays(n) == IF n = 0 THEN 0 ELSE days[n] + SumDays(n - 1)

\* the leap day counted for every year divisible by 4
day_of_the_year_every4(yr, mo, dy) ==
    SumDays(mo - 1) + dy + (IF yr % 4 = 0 /\ mo > 2 THEN 1 ELSE 0)

day_of_the_year(yr, mo, dy) ==
    SumDays(mo - 1) + dy
      + (IF yr % 4 = 0 /\ (yr % 100 # 0 \/ yr % 400 = 0) /\ mo > 2
         THEN 1 ELSE 0)

\* ((jdoy + doy) + fraction) + nsec / 1000 / 8.64e10, each sum rounded to f64
julian_timestamp(t) ==
    LET year == t.tm_year + 1900
        month == t.tm_mon + 1
        whole == julian_date_of_year(year) + day_of_the_year(year, month, t.tm_mday)
    IN  GridSum(whole,
                SodGrid(fraction_of_day(t.tm_hour, t.tm_min, t.tm_sec)),
                NsGrid(t.tm_nsec))

(***************************************************************************)
(* julian_to_unix.                                                         *)
(***************************************************************************)
\* g grid units in seconds, g * 675 / 2^24, as <<whole seconds, 2^-24ths>>
GridSeconds(g) ==
    LET gh == g \div 16777216
        gl == g % 16777216
        a == gl \div 4096
        b == gl % 4096
        x == a * 675 + (b * 675) \div 4096
    IN  <<gh * 675 + x \div 4096, (x % 4096) * 4096 + ((b * 675) % 4096)>>

\* half of the f64 spacing at dd days and sod seconds, in 2^-24 s: products
\* below 2^29 s are exact
HalfUlp(dd, sod) ==
    LET AtLeast(D, S) == dd > D \/ (dd = D /\ sod >= S)
    IN  IF AtLeast(24855, 11648) THEN 4        \* 2^31 s and more
        ELSE IF AtLeast(12427, 49024) THEN 2   \* 2^30 s and more
        ELSE IF AtLeast(6213, 67712) THEN 1    \* 2^29 s and more
        ELSE 0

\* a Timespec is [day, sod, nsec]: sec = day * 86400 + sod
Timespec_new(day, sod, nsec) ==
    IF sod >= 86400 THEN [day |-> day + 1, sod |-> sod - 86400, nsec |-> nsec]
    ELSE [day |-> day, sod |-> sod, nsec |-> nsec]

\* time::at: the broken-down local time of a Timespec in the zone off; the
\* day and second of the day are those of the local calendar
at(ts, off) ==
    LET s == ts.sod + off
    IN  [tm_day |-> ts.day + (s \div 86400), tm_sod |-> s % 86400,
         tm_nsec |-> ts.nsec, tm_utcoff |-> off]

\* unix = (julian - 2440587.5) * 86400.; Timespec::new(unix.trunc() as i64,
\* unix.fract() as i32): the cast of a fraction below 1 is 0
julian_to_unix(julian, off) ==
    LET dd == julian.d - 2440587
        gs == GridSeconds(julian.g)
        sod == gs[1]
        frac == gs[2]
        h == HalfUlp(dd, sod)
        \* the f64 product reaches the next whole second
        up == IF dd >= 0
              THEN (IF h > 0 /\ frac >= 16777216 - h THEN 1 ELSE 0)
              \* a negative product is cut toward zero
              ELSE (IF frac > 0 THEN 1 ELSE 0)
    IN  at(Timespec_new(dd, sod + up, 0), off)

(***************************************************************************)
(* The calendar, for stating the properties: the instant a broken-down     *)
(* time denotes.                                                           *)
(***************************************************************************)
\* the Julian day number of a Gregorian date (the day that starts at noon)
JulianDayNumber(Y, M, D) ==
    LET a == IF M <= 2 THEN 1 ELSE 0
        y == Y + 4800 - a
        m == M + 12 * a - 3
    IN  D + (153 * m + 2) \div 5 + 365 * y + y \div 4 - y \div 100 + y \div 400 - 32045

IsLeap(Y) == Y % 4 = 0 /\ (Y % 100 # 0 \/ Y % 400 = 0)

DaysIn(Y, M) == IF M = 2 /\ IsLeap(Y) THEN 29 ELSE days[M]

\* the instant of a UTC calendar time
InstantOfCivil(t) ==
    [day |-> JulianDayNumber(t.tm_year + 1900, t.tm_mon + 1, t.tm_mday) - 2440588,
     sod |-> t.tm_hour * 3600 + t.tm_min * 60 + t.tm_sec,
     nsec |-> t.tm_nsec]

\* the instant of a local time made by at
InstantOfLocal(tm) ==
    LET s == tm.tm_sod - tm.tm_utcoff
    IN  [day |-> tm.tm_day + (s \div 86400), sod |-> s % 86400, nsec |-> tm.tm_nsec]

\* whole seconds from b to a
SecondsBetween(a, b) == (a.day - b.day) * 86400 + a.sod - b.sod

InstLeq(a, b) ==
    \/ SecondsBetween(b, a) > 0
    \/ SecondsBetween(b, a) = 0 /\ a.nsec <= b.nsec

\* |a - b| <= 1 s
WithinOneSecond(a, b) ==
    LET ds == SecondsBetween(a, b)
    IN  \/ ds = 0
        \/ ds = 1 /\ a.nsec <= b.nsec
        \/ ds = -1 /\ a.nsec >= b.nsec

Tm(Y, M, D, h, m, s, ns) ==
    [tm_year |-> Y - 1900, tm_mon |-> M - 1, tm_mday |-> D,
     tm_hour |-> h, tm_min |-> m, tm_sec |-> s, tm_nsec |-> ns]

(***************************************************************************)
(* TimeSpec: the two conversions applied to bounded civil times.           *)
(***************************************************************************)
Years == {1957, 1969, 1970, 2000, 2016} \cup ((2100 - YearsBack) .. 2100)

CivilTimes ==
    { Tm(Y, M, D, h, m, s, ns) :
        Y \in Years, M \in {1, 2, 3, 12}, D \in {1, 28, 29, 31},
        h \in {0, 12, 23}, m \in {0, 59}, s \in {0, 1, 59},
        ns \in {0, 1000, 999999999} }

ValidCivil(t) == t.tm_mday <= DaysIn(t.tm_year + 1900, t.tm_mon + 1)

Zones == {0, 7200}

NoTm == at(Timespec_new(0, 0, 0), 0)

NoPredict == [live |-> FALSE]

InitTime ==
    /\ tIn \in {t \in CivilTimes : ValidCivil(t)}
    /\ utcoff \in Zones
    /\ jul = ZeroJulian
    /\ back = NoTm
    /\ pcT = "start"
    /\ predict = NoPredict
    /\ call = [op |-> "none"]
    /\ hist = [n |-> 0]

ToJulian ==
    /\ pcT = "start"
    /\ jul' = julian_timestamp(tIn)
    /\ pcT' = "julian"
    /\ UNCHANGED <<tIn, back, utcoff, predict, call, hist>>

ToUnix ==
    /\ pcT = "julian"
    /\ back' = julian_to_unix(jul, utcoff)
    /\ pcT' = "unix"
    /\ UNCHANGED <<tIn, jul, utcoff, predict, call, hist>>

NextTime == ToJulian \/ ToUnix

TimeSpec == InitTime /\ [][NextTime]_vars

(***************************************************************************)
(* The FFI side of the session (module ffipredict and the gpredict library *)
(* behind it, module tle): orbital elements, propagation, observer         *)
(* geometry and the AOS/LOS search.  The geometry is abstract: a pass      *)
(* table for the observer, and one symbolic value per quantity and time.   *)
(***************************************************************************)
None == [some |-> FALSE]
Some(x) == [some |-> TRUE, v |-> x]

\* the value of quantity q of the satellite at Julian date T
Qty(q, T) == [q |-> q, t |-> T]

\* the f64 0.0 of Default::default()
Zero == Qty("zero", ZeroJulian)

\* the Julian day (integer part) of the first day the session is queried on,
\* 2015-09-01
FirstDay == julian_date_of_year(2015) + day_of_the_year(2015, 9, 1)

\* the f64 Julian date of a time of day on Julian day d
DayTime(d, sod, ns) == GridSum(d, SodGrid(sod), NsGrid(ns))

\* Orbital elements as the PassFinder sees them for this observer.
\*   epoch_day  Julian day of the element set's epoch
\*   revnum     revolution number at epoch
\*   xno        mean motion, revolutions per day
\*   every      a pass every so many days, counted from the epoch day
\*              (0: the satellite never rises)
\*   rise, set  time of day <<sod, ns>> the elevation crosses zero upward
\*              and downward on a pass day
\*   decay      number of the query day from which propagation fails
\*              (0: never)
Elements ==
    { [epoch_day |-> FirstDay + 1, revnum |-> 5, xno |-> 16, every |-> 1,
       rise |-> <<43200, 750000000>>, set |-> <<43920, 0>>, decay |-> 0],
      [epoch_day |-> FirstDay + 1, revnum |-> 40, xno |-> 16, every |-> 3,
       rise |-> <<43800, 0>>, set |-> <<44400, 0>>, decay |-> 3],
      [epoch_day |-> FirstDay, revnum |-> 100, xno |-> 2, every |-> 0,
       rise |-> <<0, 0>>, set |-> <<0, 0>>, decay |-> 0] }

TleErrors == {"BadLength", "ChecksumMismatch", "CatalogMismatch", "FieldParse"}

\* a Tle: well formed with its elements, or malformed in one of four ways
Tles ==
    { [valid |-> TRUE, elems |-> e] : e \in Elements }
      \cup { [valid |-> FALSE, error |-> x] : x \in TleErrors }

\* tle::create_tle_t: the parsed element set or the TleError
create_tle_t(tle) ==
    IF tle.valid THEN [ok |-> TRUE, v |-> tle.elems]
    ELSE [ok |-> FALSE, e |-> tle.error]

\* the propagator fails (PropagationError::Decayed) from the decay day on
Decayed(e, T) == e.decay # 0 /\ T.d >= FirstDay + e.decay - 1

IsPassDay(e, d) == e.every # 0 /\ (d - e.epoch_day) % e.every = 0

RiseAt(e, d) == DayTime(d, e.rise[1], e.rise[2])
SetAt(e, d) == DayTime(d, e.set[1], e.set[2])

\* elevation [deg]: above the horizon strictly between rise and set
Elevation(e, T) ==
    IF ~IsPassDay(e, T.d) THEN -30
    ELSE IF JulLess(RiseAt(e, T.d), T) /\ JulLess(T, SetAt(e, T.d)) THEN 30
    ELSE IF T = RiseAt(e, T.d) \/ T = SetAt(e, T.d) THEN 0
    ELSE -30

\* orbit number: revolutions since the epoch plus the revolution number at
\* epoch; a signed count (C long), negative far enough before the epoch
OrbitNumber(e, T) ==
    (T.d - e.epoch_day) * e.xno + T.g \div (MaxGrid \div e.xno + 1) + e.revnum

\* the fields of sat_t that predict_calc computes; the propagator marks its
\* persisted state as initialised and leaves the elements and the branch alone
CalcAt(sat, T) ==
    [sat EXCEPT !.jul_utc = T, !.az = Qty("az", T),
                !.el = Elevation(sat.tle, T),
                !.range = Qty("range", T), !.range_rate = Qty("range_rate", T),
                !.ssplat = Qty("ssplat", T), !.ssplon = Qty("ssplon", T),
                !.alt = Qty("alt", T), !.velo = Qty("velo", T),
                !.orbit = OrbitNumber(sat.tle, T),
                !.flags = @ \cup {"INITIALIZED"}]

\* what the fields hold when propagation fails at T: a bogus position, still
\* computed from the elements and T alone
BogusAt(sat, T) ==
    [sat EXCEPT !.jul_utc = T, !.az = Qty("bogus", T), !.el = -90,
                !.range = Qty("bogus", T), !.range_rate = Qty("bogus", T),
                !.ssplat = Qty("bogus", T), !.ssplon = Qty("bogus", T),
                !.alt = Qty("bogus", T), !.velo = Qty("bogus", T),
                !.orbit = OrbitNumber(sat.tle, T),
                !.flags = @ \cup {"INITIALIZED"}]

\* ffipredict::predict_calc: position and geometry at T, written into sat.
\* It returns nothing: a failed propagation is not told from a good one.
predict_calc(sat, T) ==
    IF Decayed(sat.tle, T) THEN BogusAt(sat, T) ELSE CalcAt(sat, T)

\* start + maxdt days
Horizon(start, maxdt) == [d |-> start.d + maxdt, g |-> start.g]

\* the crossings of one direction from start to the horizon that the
\* propagator can reach
Crossings(e, start, maxdt, rising) ==
    { c \in { IF rising THEN RiseAt(e, d) ELSE SetAt(e, d) :
                d \in { x \in start.d .. start.d + maxdt : IsPassDay(e, x) } } :
        /\ IF rising THEN JulLeq(start, c) ELSE JulLess(start, c)
        /\ JulLeq(c, Horizon(start, maxdt))
        /\ ~Decayed(e, c) }

Earliest(S) == CHOOSE c \in S : \A x \in S : JulLeq(c, x)

\* the search of both directions: 0.0 when propagation fails at start or no
\* crossing lies within maxdt days; sat is left at the last trial timestamp
FindCrossing(sat, start, maxdt, rising) ==
    LET S == Crossings(sat.tle, start, maxdt, rising)
    IN  IF Decayed(sat.tle, start)
        THEN [ret |-> ZeroJulian, sat |-> predict_calc(sat, start)]
        ELSE IF S = {}
        THEN [ret |-> ZeroJulian, sat |-> predict_calc(sat, Horizon(start, maxdt))]
        ELSE [ret |-> Earliest(S), sat |-> predict_calc(sat, Earliest(S))]

\* ffipredict::find_aos, ffipredict::find_los
find_aos(sat, start, maxdt) == FindCrossing(sat, start, maxdt, TRUE)
find_los(sat, start, maxdt) == FindCrossing(sat, start, maxdt, FALSE)

\* ffipredict::get_current_daynum: the Julian date of the system clock
get_current_daynum(clock) == julian_timestamp(clock)

\* ffipredict::gtk_sat_data_init_sat after select_ephemeris: the satellite
\* at its epoch
gtk_sat_data_init_sat(sat) == CalcAt(sat, [d |-> sat.tle.epoch_day, g |-> 0])

\* ffipredict::select_ephemeris: the deep-space branch for an orbital period of
\* 225 minutes or more (1440 / xno minutes), the near-Earth branch otherwise
select_ephemeris(sat) ==
    [sat EXCEPT !.flags = IF 1440 >= 225 * sat.tle.xno
                          THEN {"DEEP_SPACE_EPHEM"} ELSE {}]

(***************************************************************************)
(* Predict.                                                                *)
(***************************************************************************)
\* `x as u64` of a signed 64 bit x: the record stands for wraps * 2^64 + v
AsU64(x) == [wraps |-> IF x < 0 THEN 1 ELSE 0, v |-> x]

U64Leq(a, b) == a.wraps < b.wraps \/ (a.wraps = b.wraps /\ a.v <= b.v)

\* Sat: Default::default()
DefaultSat ==
    [aos |-> None, los |-> None, az_deg |-> Zero, el_deg |-> 0,
     range_km |-> Zero, range_rate_km_sec |-> Zero, lat_deg |-> Zero,
     lon_deg |-> Zero, alt_km |-> Zero, vel_km_s |-> Zero,
     orbit_nr |-> AsU64(0)]

\* the sat_t literal of Predict::new, lines 154-187
NewSatT(tle_t) ==
    [jul_utc |-> ZeroJulian, az |-> Zero, el |-> 0, range |-> Zero,
     range_rate |-> Zero, ssplat |-> Zero, ssplon |-> Zero, alt |-> Zero,
     velo |-> Zero, orbit |-> 0, flags |-> {}, tle |-> tle_t]

\* Predict::new without the call of select_ephemeris
new_unselected(tle, location) ==
    LET r == create_tle_t(tle)
    IN  IF ~r.ok THEN [panicked |-> TRUE]
        ELSE [panicked |-> FALSE,
              value |-> [live |-> TRUE, sat |-> DefaultSat,
                         p_sat |-> gtk_sat_data_init_sat(NewSatT(r.v)),
                         p_qth |-> location]]

\* Predict::new: unwrap panics on a TleError
new(tle, location) ==
    LET r == create_tle_t(tle)
    IN  IF ~r.ok THEN [panicked |-> TRUE]
        ELSE [panicked |-> FALSE,
              value |-> [live |-> TRUE, sat |-> DefaultSat,
                         p_sat |-> gtk_sat_data_init_sat(select_ephemeris(NewSatT(r.v))),
                         p_qth |-> location]]

\* the eleven assignments of update, lines 225-235
Snapshot(aos, los, p_sat) ==
    [aos |-> aos, los |-> los, az_deg |-> p_sat.az, el_deg |-> p_sat.el,
     range_km |-> p_sat.range, range_rate_km_sec |-> p_sat.range_rate,
     lat_deg |-> p_sat.ssplat, lon_deg |-> p_sat.ssplon, alt_km |-> p_sat.alt,
     vel_km_s |-> p_sat.velo, orbit_nr |-> AsU64(p_sat.orbit)]

\* match find_..() { 0.0 => None, x => Some(julian_to_unix(x)) }
CrossingOption(ret, off) ==
    IF ret = ZeroJulian THEN None ELSE Some(julian_to_unix(ret, off))

\* the Julian date update works at
QueryJulian(timeoption, clock) ==
    IF timeoption.some THEN julian_timestamp(timeoption.v)
    ELSE get_current_daynum(clock)

\* update without the predict_calc that follows the searches
update_stale(self, timeoption, clock, off) ==
    LET juliantime == QueryJulian(timeoption, clock)
        a == find_aos(self.p_sat, juliantime, 1)
        l == find_los(a.sat, juliantime, 1)
    IN  [self EXCEPT !.p_sat = l.sat,
                     !.sat = Snapshot(CrossingOption(a.ret, off),
                                      CrossingOption(l.ret, off), l.sat)]

\* update that assigns aos only when the search found one
update_sticky(self, timeoption, clock, off) ==
    LET juliantime == QueryJulian(timeoption, clock)
        a == find_aos(self.p_sat, juliantime, 1)
        l == find_los(a.sat, juliantime, 1)
        p == predict_calc(l.sat, juliantime)
    IN  [self EXCEPT !.p_sat = p,
                     !.sat = Snapshot(IF a.ret = ZeroJulian THEN self.sat.aos
                                      ELSE CrossingOption(a.ret, off),
                                      CrossingOption(l.ret, off), p)]

\* update with the two search results assigned the other way round
update_swapped(self, timeoption, clock, off) ==
    LET juliantime == QueryJulian(timeoption, clock)
        a == find_aos(self.p_sat, juliantime, 1)
        l == find_los(a.sat, juliantime, 1)
        p == predict_calc(l.sat, juliantime)
    IN  [self EXCEPT !.p_sat = p,
                     !.sat = Snapshot(CrossingOption(l.ret, off),
                                      CrossingOption(a.ret, off), p)]

\* Predict::update; it returns ()
update(self, timeoption, clock, off) ==
    LET juliantime == QueryJulian(timeoption, clock)
        a == find_aos(self.p_sat, juliantime, 1)
        l == find_los(a.sat, juliantime, 1)
        p == predict_calc(l.sat, juliantime)
    IN  [self EXCEPT !.p_sat = p,
                     !.sat = Snapshot(CrossingOption(a.ret, off),
                                      CrossingOption(l.ret, off), p)]

(***************************************************************************)
(* Spec: one session, created from a Tle and updated at bounded times.     *)
(***************************************************************************)
\* times of day the session is queried at: <<hour, minute, second, nsec>>
QueryClocks ==
    { <<12, 0, 0, 0>>, <<12, 0, 0, 500000000>>, <<12, 10, 0, 0>>,
      <<12, 12, 0, 0>>, <<23, 0, 0, 0>> }

QueryTimes ==
    { Tm(2015, 9, 1 + k, c[1], c[2], c[3], c[4]) :
        k \in 0 .. QueryDays - 1, c \in QueryClocks }

Observer == [lat_deg |-> "58.64560", lon_deg |-> "23.15163", alt_m |-> 8]

NoHist ==
    [n |-> 0, at |-> Tm(2015, 9, 1, 0, 0, 0, 0), julian |-> ZeroJulian,
     failed |-> FALSE, prevSat |-> DefaultSat,
     prevAt |-> Tm(2015, 9, 1, 0, 0, 0, 0), created |-> None]

Init ==
    /\ tIn = Tm(2015, 9, 1, 0, 0, 0, 0)
    /\ utcoff \in Zones
    /\ jul = ZeroJulian
    /\ back = NoTm
    /\ pcT = "start"
    /\ predict = NoPredict
    /\ call = [op |-> "none", arg |-> "none", tle_valid |-> TRUE, result |-> "none"]
    /\ hist = NoHist

New ==
    /\ ~predict.live
    /\ \E tle \in Tles :
        LET r == new(tle, Observer)
        IN  /\ predict' = IF r.panicked THEN predict ELSE r.value
            /\ call' = [op |-> "new", arg |-> "tle", tle_valid |-> tle.valid,
                        result |-> IF r.panicked THEN "panic" ELSE "value"]
            /\ hist' = IF r.panicked THEN NoHist
                       ELSE [NoHist EXCEPT !.created =
                                Some([elems |-> tle.elems, location |-> Observer])]
    /\ UNCHANGED <<tIn, jul, back, pcT, utcoff>>

\* the record of one update at the Julian date juliantime
HistAfter(at_, juliantime) ==
    [hist EXCEPT !.n = IF hist.n < 2 THEN hist.n + 1 ELSE 2,
                 !.at = at_,
                 !.julian = juliantime,
                 !.failed = Decayed(predict.p_sat.tle, juliantime),
                 !.prevSat = predict.sat,
                 !.prevAt = hist.at]

\* update(Some(t)): the clock is not read
UpdateAt ==
    /\ predict.live
    /\ \E t \in QueryTimes :
        /\ predict' = update(predict, Some(t), t, utcoff)
        /\ hist' = HistAfter(t, QueryJulian(Some(t), t))
    /\ call' = [op |-> "update", arg |-> "some", tle_valid |-> TRUE, result |-> "unit"]
    /\ UNCHANGED <<tIn, jul, back, pcT, utcoff>>

\* update(None) while the system clock reads clock
UpdateNow ==
    /\ predict.live
    /\ \E clock \in QueryTimes :
        /\ predict' = update(predict, None, clock, utcoff)
        /\ hist' = HistAfter(clock, QueryJulian(None, clock))
    /\ call' = [op |-> "update", arg |-> "none", tle_valid |-> TRUE, result |-> "unit"]
    /\ UNCHANGED <<tIn, jul, back, pcT, utcoff>>

\* the caller drops the session
Drop ==
    /\ predict.live
    /\ predict' = NoPredict
    /\ call' = [op |-> "drop", arg |-> "none", tle_valid |-> TRUE, result |-> "unit"]
    /\ hist' = NoHist
    /\ UNCHANGED <<tIn, jul, back, pcT, utcoff>>

Next == New \/ UpdateAt \/ UpdateNow \/ Drop

Spec == Init /\ [][Next]_vars

(***************************************************************************)
(* Properties of the session (Spec).                                       *)
(***************************************************************************)
InstLess(a, b) == ~InstLeq(b, a)

\* the instant of the query time of the last update
QueryInstant == InstantOfCivil(hist.at)

\* a snapshot time, when present, lies from the query time to one day later
WithinHorizon(opt) ==
    opt.some =>
        /\ InstLeq(QueryInstant, InstantOfLocal(opt.v))
        /\ InstLeq(InstantOfLocal(opt.v), [QueryInstant EXCEPT !.day = @ + 1])

\* the position fields of the snapshot are those of the satellite at T
PositionAt(sat, e, T) ==
    /\ sat.az_deg = Qty("az", T)
    /\ sat.el_deg = Elevation(e, T)
    /\ sat.range_km = Qty("range", T)
    /\ sat.range_rate_km_sec = Qty("range_rate", T)
    /\ sat.lat_deg = Qty("ssplat", T)
    /\ sat.lon_deg = Qty("ssplon", T)
    /\ sat.alt_km = Qty("alt", T)
    /\ sat.vel_km_s = Qty("velo", T)
    /\ sat.orbit_nr = AsU64(OrbitNumber(e, T))

\* the next crossing of one direction from T within one day, as the snapshot
\* holds it
NextCrossing(e, T, rising, off) ==
    LET S == Crossings(e, T, 1, rising)
    IN  IF S = {} THEN None ELSE Some(julian_to_unix(Earliest(S), off))

\* C3: when propagation fails during update, update returns the error and the
\* previous snapshot is unchanged in every field.
C3_FailedUpdateKeepsSnapshot ==
    (call.op = "update" /\ hist.failed) =>
        /\ call.result = "err"
        /\ predict.sat = hist.prevSat

\* C4: constructing a session from a malformed TLE gives the caller an error
\* result, and no session is created.
C4_MalformedTleIsErrorResult ==
    (call.op = "new" /\ ~call.tle_valid) =>
        /\ call.result = "err"
        /\ ~predict.live

\* C5: after update(at), aos (likewise los) is absent exactly when no matching
\* zero crossing lies within one day after the query time; when present it is
\* not earlier than the query time and not later than the query time plus one
\* day; the other fields are refreshed either way.
C5_CrossingWithinHorizon ==
    (call.op = "update" /\ ~hist.failed) =>
        LET e == predict.p_sat.tle
        IN  /\ ~predict.sat.aos.some <=> Crossings(e, hist.julian, 1, TRUE) = {}
            /\ ~predict.sat.los.some <=> Crossings(e, hist.julian, 1, FALSE) = {}
            /\ WithinHorizon(predict.sat.aos)
            /\ WithinHorizon(predict.sat.los)
            /\ PositionAt(predict.sat, e, hist.julian)

\* C6: after every successful update(at) the snapshot is replaced wholesale:
\* aos and los are those searched from the query time of this call and the
\* position fields are those of the satellite at the query time, not at a
\* trial timestamp of the searches and not of an earlier update.
C6_SnapshotReplacedWholesale ==
    (call.op = "update" /\ ~hist.failed) =>
        LET e == predict.p_sat.tle
        IN  /\ predict.sat.aos = NextCrossing(e, hist.julian, TRUE, utcoff)
            /\ predict.sat.los = NextCrossing(e, hist.julian, FALSE, utcoff)
            /\ PositionAt(predict.sat, e, hist.julian)

\* a second successful update, at another time, after searches that found
\* both crossings and so left the satellite state at trial timestamps
C6_Witness ==
    /\ call.op = "update" /\ ~hist.failed /\ hist.n = 2
    /\ predict.sat.aos.some /\ predict.sat.los.some
    /\ hist.prevSat.az_deg # Zero
    /\ predict.sat.az_deg # hist.prevSat.az_deg
    /\ predict.sat.az_deg = Qty("az", hist.julian)

\* C7: over updates with non-decreasing timestamps, orbit_nr never decreases
\* from one update to the next.
C7_OrbitNumberNeverDecreases ==
    (/\ call.op = "update" /\ hist.n = 2
     /\ InstLeq(InstantOfCivil(hist.prevAt), InstantOfCivil(hist.at))) =>
        U64Leq(hist.prevSat.orbit_nr, predict.sat.orbit_nr)

\* C8: after update(at) with aos and los both present, los is earlier than aos
\* only if the elevation at the query time is positive; if it is not
\* positive, los is strictly later than aos.
C8_LosBeforeAosOnlyAboveHorizon ==
    (call.op = "update" /\ predict.sat.aos.some /\ predict.sat.los.some) =>
        LET a == InstantOfLocal(predict.sat.aos.v)
            l == InstantOfLocal(predict.sat.los.v)
        IN  /\ InstLess(l, a) => predict.sat.el_deg > 0
            /\ predict.sat.el_deg <= 0 => InstLess(a, l)

\* an update while the satellite is above the horizon: its los precedes its
\* aos
C8_Witness ==
    /\ call.op = "update" /\ predict.sat.aos.some /\ predict.sat.los.some
    /\ predict.sat.el_deg > 0
    /\ InstLess(InstantOfLocal(predict.sat.los.v), InstantOfLocal(predict.sat.aos.v))

\* C9: the near-Earth/deep-space branch is chosen in Predict::new, deep-space
\* iff the orbital period is 225 minutes or more, and no sequence of updates
\* changes it, the observer location or the orbital elements.
C9_BranchAndInputsFixed ==
    predict.live =>
        /\ hist.created.some
        /\ predict.p_sat.tle = hist.created.v.elems
        /\ predict.p_qth = hist.created.v.location
        /\ "DEEP_SPACE_EPHEM" \in predict.p_sat.flags
             <=> 1440 >= 225 * hist.created.v.elems.xno

\* a deep-space session after two updates
C9_Witness ==
    /\ predict.live /\ call.op = "update" /\ hist.n = 2
    /\ "DEEP_SPACE_EPHEM" \in predict.p_sat.flags
    /\ predict.p_sat.jul_utc = hist.julian

\* the snapshot a session built from the same TLE and location holds after
\* update(Some(t)) as its first call
FreshSnapshot(e, location, t, off) ==
    update(new([valid |-> TRUE, elems |-> e], location).value, Some(t), t, off).sat

StandardJulianDay(t) == JulianDayNumber(t.tm_year + 1900, t.tm_mon + 1, t.tm_mday) - 1

StandardGridFloor(t) ==
    SodGridFloor(t.tm_hour * 3600 + t.tm_min * 60 + t.tm_sec) + NsGridFloor(t.tm_nsec)

\* C1: for every valid UTC civil time of 1957..2100, leap days and the days
\* after them included, julian_timestamp is the standard Julian date: the day
\* is the Julian day of the Gregorian date and the time of day is the f64
\* nearest to it (two f64 sums: at most two grid steps of 2^-31 day above the
\* exact value cut down); 2000-01-01T12:00:00 gives 2451545.0 and
\* 1970-01-01T00:00:00 gives 2440587.5 exactly.
C1_JulianTimestampIsStandard ==
    pcT # "start" =>
        LET d0 == StandardJulianDay(tIn)
            f == StandardGridFloor(tIn)
        IN  /\ \/ jul.d = d0 /\ jul.g - f \in 0 .. 2
               \/ jul.d = d0 + 1 /\ jul.g = 0 /\ MaxGrid - f \in 0 .. 1
            /\ tIn = Tm(2000, 1, 1, 12, 0, 0, 0) => jul = [d |-> 2451544, g |-> 1073741824]
            /\ tIn = Tm(1970, 1, 1, 0, 0, 0, 0) => jul = [d |-> 2440587, g |-> 0]

\* a date after the leap day of a century leap year has been converted
C1_Witness ==
    /\ pcT # "start"
    /\ tIn.tm_year = 100 /\ tIn.tm_mon = 2 /\ tIn.tm_mday = 1
    /\ jul.d = 2451604

\* C2: the round trip julian_to_unix(julian_timestamp(t)) denotes the civil
\* time t to within one second.
C2_RoundTripWithinOneSecond ==
    pcT = "unix" => WithinOneSecond(InstantOfLocal(back), InstantOfCivil(tIn))

====
